---- MODULE Spec2Model ----
(***************************************************************************)
(* whatif: what-if analysis drivers (data table, goal seek, simulation)   *)
(* of src/src/whatif/whatif.py, run against the BookstoreModel of         *)
(* src/examples/BookstoreModel.py.                                         *)
(*                                                                         *)
(* Python objects live in a heap of attribute dictionaries, so that a     *)
(* reference (vars(obj), the clone held by a driver) can be told from a    *)
(* copy.  Dictionaries that keep insertion order are sequences of         *)
(* key/value records.  Numbers are integers; the inputs of goal_seek are   *)
(* multiples of Grain, so that every halving the bisection makes is exact. *)
(***************************************************************************)
EXTENDS Integers, Sequences, FiniteSets, TLC

VARIABLES
    heap,          \* object reference -> attribute dictionary (obj.__dict__)
    pc,            \* position of the single thread of control
    call,          \* arguments of the driver call in progress (or last made)
    model_clone,   \* reference held by the driver's local model_clone
    param_grid,    \* dt_param_grid / sim_param_grid
    scenario_num,  \* index of the next scenario of the loop
    results,       \* results / scenario_results built so far
    a_n,           \* goal_seek: left end of the current interval
    b_n,           \* goal_seek: right end of the current interval
    n_iter,        \* goal_seek: number of bisection iterations performed
    ret,           \* outcome of the last driver call
    df,            \* outcome of the last get_sim_results_df call
    scenario_base_vals, \* simulate: the reference vars(...) returned
    evals,         \* history: <<scenario index, output name>> of every output invoked by the call
    base_at_start, \* history: contents of the dictionary scenario_base_vals names, when it was taken
    self_at_call   \* history: the caller's model attributes when the driver was entered

vars == <<heap, pc, call, model_clone, param_grid, scenario_num, results,
          a_n, b_n, n_iter, ret, df, scenario_base_vals, evals, base_at_start,
          self_at_call>>

----------------------------------------------------------------------------
(* Bounds *)

MaxCand == 2        \* longest candidate sequence of a scenario input
MaxN == 2           \* largest iteration budget N of goal_seek
MaxEnd == 3         \* goal_seek end points are 0..MaxEnd times Grain

----------------------------------------------------------------------------
(* Values: a scalar number, a one-dimensional array, or None *)

Scalar(x) == [k |-> "s", v |-> <<x>>]
Array(xs) == [k |-> "a", v |-> xs]
NoneVal == [k |-> "none", v |-> <<>>]

\* result of evaluating an expression: a value, or the type of the exception raised
Ok(val) == [exc |-> "", val |-> val]
Raise(type) == [exc |-> type, val |-> NoneVal]

\* the arithmetic the output operations use, on two numbers
apply(op, x, y) ==
    CASE op = "*" -> x * y
      [] op = "+" -> x + y
      [] op = "-" -> x - y
      [] op = "minimum" -> IF x <= y THEN x ELSE y
      [] op = "maximum" -> IF x >= y THEN x ELSE y

\* numpy elementwise binary operation with broadcasting of scalars and of
\* arrays of length one; None operands raise TypeError, arrays of different
\* lengths raise ValueError; the left operand is evaluated first
ufunc(op, rx, ry) ==
    IF rx.exc # "" THEN rx
    ELSE IF ry.exc # "" THEN ry
    ELSE LET x == rx.val
             y == ry.val
         IN  IF x.k = "none" \/ y.k = "none" THEN Raise("TypeError")
             ELSE IF x.k = "s" /\ y.k = "s" THEN Ok(Scalar(apply(op, x.v[1], y.v[1])))
             ELSE IF x.k = "s" THEN Ok(Array([i \in 1..Len(y.v) |-> apply(op, x.v[1], y.v[i])]))
             ELSE IF y.k = "s" THEN Ok(Array([i \in 1..Len(x.v) |-> apply(op, x.v[i], y.v[1])]))
             ELSE IF Len(x.v) = Len(y.v)
                  THEN Ok(Array([i \in 1..Len(x.v) |-> apply(op, x.v[i], y.v[i])]))
             ELSE IF Len(x.v) = 1
                  THEN Ok(Array([i \in 1..Len(y.v) |-> apply(op, x.v[1], y.v[i])]))
             ELSE IF Len(y.v) = 1
                  THEN Ok(Array([i \in 1..Len(x.v) |-> apply(op, x.v[i], y.v[1])]))
             ELSE Raise("ValueError")

----------------------------------------------------------------------------
(* BookstoreModel: attributes and output operations *)

Attrs == {"unit_cost", "selling_price", "unit_refund", "order_quantity", "demand"}

order_cost(m) == ufunc("*", Ok(m["unit_cost"]), Ok(m["order_quantity"]))
num_sold(m) == ufunc("minimum", Ok(m["order_quantity"]), Ok(m["demand"]))
sales_revenue(m) == ufunc("*", num_sold(m), Ok(m["selling_price"]))
num_unsold(m) ==
    ufunc("maximum", Ok(Scalar(0)), ufunc("-", Ok(m["order_quantity"]), Ok(m["demand"])))
refund_revenue(m) == ufunc("*", num_unsold(m), Ok(m["unit_refund"]))
total_revenue(m) == ufunc("+", sales_revenue(m), refund_revenue(m))
profit(m) ==
    ufunc("-", ufunc("+", sales_revenue(m), refund_revenue(m)), order_cost(m))

\* getattr(model, name)(): a name the class does not define raises AttributeError
invoke_output(m, name) ==
    CASE name = "order_cost" -> order_cost(m)
      [] name = "num_sold" -> num_sold(m)
      [] name = "sales_revenue" -> sales_revenue(m)
      [] name = "num_unsold" -> num_unsold(m)
      [] name = "refund_revenue" -> refund_revenue(m)
      [] name = "total_revenue" -> total_revenue(m)
      [] name = "profit" -> profit(m)
      [] OTHER -> Raise("AttributeError")

----------------------------------------------------------------------------
(* Ordered dictionaries *)

Item(key, val) == [key |-> key, val |-> val]

DictKeys(d) == [i \in 1..Len(d) |-> d[i].key]

DictHas(d, key) == \E i \in 1..Len(d) : d[i].key = key

DictGet(d, key) == d[CHOOSE i \in 1..Len(d) : d[i].key = key].val

\* d[key] = val: an existing key keeps its position, a new key goes last
DictSet(d, key, val) ==
    IF DictHas(d, key)
    THEN [i \in 1..Len(d) |-> IF d[i].key = key THEN Item(key, val) ELSE d[i]]
    ELSE Append(d, Item(key, val))

\* dict(zip(keys, v))
RECURSIVE DictZip(_, _)
DictZip(keys, v) ==
    IF keys = <<>> \/ v = <<>> THEN <<>>
    ELSE DictSet(DictZip(SubSeq(keys, 1, Len(keys) - 1), SubSeq(v, 1, Len(v) - 1)),
                 keys[Len(keys)], v[Len(v)])

----------------------------------------------------------------------------
(* create_parameter_grid *)

\* mutant of product_step: the loops are nested the other way round
product_step_swapped(result, pool) ==
    [i \in 1..(Len(result) * Len(pool)) |->
        Append(result[((i - 1) % Len(result)) + 1], pool[((i - 1) \div Len(result)) + 1])]

\* one pass of itertools.product: result = [x + [y] for x in result for y in pool]
product_step(result, pool) ==
    [i \in 1..(Len(result) * Len(pool)) |->
        Append(result[((i - 1) \div Len(pool)) + 1], pool[((i - 1) % Len(pool)) + 1])]

RECURSIVE product_from(_, _)
product_from(result, pools) ==
    IF pools = <<>> THEN result
    ELSE product_from(product_step(result, Head(pools)), Tail(pools))

product(pools) == product_from(<< <<>> >>, pools)

\* scenario_inputs is an ordered dictionary name -> candidate sequence.
\* keys, values = zip(*scenario_inputs.items()) cannot unpack an empty zip.
create_parameter_grid(scenario_inputs) ==
    IF scenario_inputs = <<>>
    THEN [exc |-> "ValueError", grid |-> <<>>]
    ELSE LET keys == DictKeys(scenario_inputs)
             values == [i \in 1..Len(scenario_inputs) |-> scenario_inputs[i].val]
             vs == product(values)
         IN  [exc |-> "", grid |-> [i \in 1..Len(vs) |-> DictZip(keys, vs[i])]]


----------------------------------------------------------------------------
(* Objects and the Model base class *)

SelfRef == "self"
CloneRef == "clone"
NullRef == "null"

\* mutant of deepcopy: the same object is handed back, nothing is copied
deepcopy_alias(h, ref) == [heap |-> h, ref |-> ref]

\* copy.deepcopy(obj): a new object with its own attribute dictionary
deepcopy(h, ref) ==
    [heap |-> [r \in (DOMAIN h) \cup {CloneRef} |-> IF r = CloneRef THEN h[ref] ELSE h[r]],
     ref |-> CloneRef]

\* setattr(obj, key, val)
setattr(h, ref, key, val) == [h EXCEPT ![ref] = [@ EXCEPT ![key] = val]]

\* mutant of update: only the first key of param_dict is set
update_first_key(h, ref, param_dict) ==
    IF param_dict = <<>> THEN h
    ELSE setattr(h, ref, Head(param_dict).key, Head(param_dict).val)

\* Model.update: setattr for every key of param_dict, in order
RECURSIVE update(_, _, _)
update(h, ref, param_dict) ==
    IF param_dict = <<>> THEN h
    ELSE update(setattr(h, ref, Head(param_dict).key, Head(param_dict).val),
                ref, Tail(param_dict))

\* mutant of eval_outputs: an output that raises is skipped and the loop goes on
RECURSIVE eval_outputs_swallow(_, _, _)
eval_outputs_swallow(m, outputs, acc) ==
    IF outputs = <<>> THEN acc
    ELSE LET r == invoke_output(m, Head(outputs))
             invoked == Append(acc.invoked, Head(outputs))
         IN  eval_outputs_swallow(m, Tail(outputs),
                 [exc |-> "",
                  dict |-> IF r.exc # "" THEN acc.dict
                           ELSE DictSet(acc.dict, Head(outputs), r.val),
                  invoked |-> invoked])

\* the loop "for output in outputs: result[output] = getattr(model_clone, output)()";
\* it ends at the first output that raises.  invoked lists the names called.
RECURSIVE eval_outputs(_, _, _)
eval_outputs(m, outputs, acc) ==
    IF outputs = <<>> THEN acc
    ELSE LET r == invoke_output(m, Head(outputs))
             invoked == Append(acc.invoked, Head(outputs))
         IN  IF r.exc # ""
             THEN [exc |-> r.exc, dict |-> acc.dict, invoked |-> invoked]
             ELSE eval_outputs(m, Tail(outputs),
                               [exc |-> "", dict |-> DictSet(acc.dict, Head(outputs), r.val),
                                invoked |-> invoked])

EvalStart(d) == [exc |-> "", dict |-> d, invoked |-> <<>>]

----------------------------------------------------------------------------
(* pandas data frames: ordered columns, an index, and rows of cells *)

NaN == [k |-> "nan", v |-> <<>>]

EmptyFrame == [columns |-> <<>>, index |-> <<>>, rows |-> <<>>]

SeqHas(s, x) == \E i \in 1..Len(s) : s[i] = x

\* keys of a list of dictionaries, in order of first appearance
RECURSIVE KeyUnion(_, _)
KeyUnion(acc, keys) ==
    IF keys = <<>> THEN acc
    ELSE KeyUnion(IF SeqHas(acc, Head(keys)) THEN acc ELSE Append(acc, Head(keys)),
                  Tail(keys))

RECURSIVE AllKeys(_, _)
AllKeys(acc, dicts) ==
    IF dicts = <<>> THEN acc
    ELSE AllKeys(KeyUnion(acc, DictKeys(Head(dicts))), Tail(dicts))

\* pd.DataFrame(list of dictionaries): one row per dictionary, NaN where a key is missing
DataFrame(dicts) ==
    LET columns == AllKeys(<<>>, dicts)
    IN  [columns |-> columns,
         index |-> [i \in 1..Len(dicts) |-> i - 1],
         rows |-> [i \in 1..Len(dicts) |->
                     [c \in 1..Len(columns) |->
                        IF DictHas(dicts[i], columns[c])
                        THEN DictGet(dicts[i], columns[c]) ELSE NaN]]]

\* pd.DataFrame(dictionary name -> scalar or array): arrays give the rows,
\* scalars are broadcast; all scalars, or arrays of different lengths, raise
DataFrameOfArrays(d) ==
    LET arrays == {i \in 1..Len(d) : d[i].val.k = "a"}
        lens == {Len(d[i].val.v) : i \in arrays}
    IN  IF d = <<>> THEN [exc |-> "", frame |-> EmptyFrame]
        ELSE IF arrays = {} \/ Cardinality(lens) > 1
        THEN [exc |-> "ValueError", frame |-> EmptyFrame]
        ELSE LET n == CHOOSE l \in lens : TRUE
             IN  [exc |-> "",
                  frame |-> [columns |-> DictKeys(d),
                             index |-> [i \in 1..n |-> i - 1],
                             rows |-> [i \in 1..n |->
                                         [c \in 1..Len(d) |->
                                            IF d[c].val.k = "a"
                                            THEN Scalar(d[c].val.v[i])
                                            ELSE d[c].val]]]]

\* df[key] = val for a scalar val: the column is replaced, or added last
FrameSetColumn(frame, key, val) ==
    IF SeqHas(frame.columns, key)
    THEN [frame EXCEPT !.rows = [i \in 1..Len(frame.rows) |->
                                   [c \in 1..Len(frame.columns) |->
                                      IF frame.columns[c] = key THEN val
                                      ELSE frame.rows[i][c]]]]
    ELSE [frame EXCEPT !.columns = Append(frame.columns, key),
                       !.rows = [i \in 1..Len(frame.rows) |-> Append(frame.rows[i], val)]]

RECURSIVE FrameSetColumns(_, _)
FrameSetColumns(frame, d) ==
    IF d = <<>> THEN frame
    ELSE FrameSetColumns(FrameSetColumn(frame, Head(d).key, Head(d).val), Tail(d))

FrameCell(frame, i, key) ==
    frame.rows[i][CHOOSE c \in 1..Len(frame.columns) : frame.columns[c] = key]

\* pd.concat(dfs): union of the columns, rows and index labels of each frame in turn
RECURSIVE ConcatColumns(_, _)
ConcatColumns(acc, dfs) ==
    IF dfs = <<>> THEN acc
    ELSE ConcatColumns(KeyUnion(acc, Head(dfs).columns), Tail(dfs))

RECURSIVE ConcatRows(_, _)
ConcatRows(columns, dfs) ==
    IF dfs = <<>> THEN <<>>
    ELSE LET f == Head(dfs)
         IN  [i \in 1..Len(f.rows) |->
                [c \in 1..Len(columns) |->
                   IF SeqHas(f.columns, columns[c])
                   THEN FrameCell(f, i, columns[c]) ELSE NaN]]
             \o ConcatRows(columns, Tail(dfs))

RECURSIVE ConcatIndex(_)
ConcatIndex(dfs) ==
    IF dfs = <<>> THEN <<>> ELSE Head(dfs).index \o ConcatIndex(Tail(dfs))

concat(dfs) ==
    LET columns == ConcatColumns(<<>>, dfs)
    IN  [columns |-> columns, index |-> ConcatIndex(dfs), rows |-> ConcatRows(columns, dfs)]

----------------------------------------------------------------------------
(* get_sim_results_df *)

\* the body of "for r in results": the frame of one scenario record
record_frame(r) ==
    LET f == DataFrameOfArrays(r.output)
    IN  IF f.exc # "" THEN f
        ELSE [exc |-> "",
              frame |-> FrameSetColumns(
                           FrameSetColumn(f.frame, "scenario_num", Scalar(r.scenario_num)),
                           r.scenario_vals)]

\* mutant of get_sim_results_df: the first frame is returned, nothing is concatenated
get_sim_results_df_first(rs) ==
    LET fs == [i \in 1..Len(rs) |-> record_frame(rs[i])]
    IN  IF fs = <<>> THEN [exc |-> "IndexError", frame |-> EmptyFrame] ELSE fs[1]

get_sim_results_df(rs) ==
    LET fs == [i \in 1..Len(rs) |-> record_frame(rs[i])]
        bad == {i \in 1..Len(rs) : fs[i].exc # ""}
        dfs == [i \in 1..Len(rs) |-> fs[i].frame]
    IN  IF bad # {}
        THEN [exc |-> fs[CHOOSE i \in bad : \A j \in bad : i <= j].exc, frame |-> EmptyFrame]
        ELSE IF Len(dfs) > 1 THEN [exc |-> "", frame |-> concat(dfs)]
        ELSE IF Len(dfs) = 1 THEN [exc |-> "", frame |-> dfs[1]]
        ELSE [exc |-> "IndexError", frame |-> EmptyFrame]

----------------------------------------------------------------------------
(* Inputs of the calls *)

\* 2^k
RECURSIVE Pow2(_)
Pow2(k) == IF k = 0 THEN 1 ELSE 2 * Pow2(k - 1)

\* end points are multiples of Grain: MaxN + 1 halvings stay whole numbers
Grain == Pow2(MaxN + 1)

SeqsUpTo(S, len) == UNION {[1..l -> S] : l \in 0..len}

ScenKeys == {"order_quantity", "unit_cost"}

CandVals(key) ==
    IF key = "order_quantity" THEN {Scalar(8), Scalar(16)} ELSE {Scalar(3), NoneVal}

CandSeqs(key) == SeqsUpTo(CandVals(key), MaxCand)

ScenarioInputs ==
    {<<>>}
    \cup UNION {{<<Item(k, c)>> : c \in CandSeqs(k)} : k \in ScenKeys}
    \cup UNION {{<<Item(ks[1], c1), Item(ks[2], c2)>> :
                      c1 \in CandSeqs(ks[1]), c2 \in CandSeqs(ks[2])} :
                   ks \in {p \in ScenKeys \X ScenKeys : p[1] # p[2]}}

OutputLists ==
    {<<>>, <<"profit">>, <<"num_sold", "profit">>, <<"order_cost", "undefined_output">>}

RandomInputs ==
    {<<>>,
     <<Item("demand", Array(<<8, 24>>))>>,
     <<Item("demand", Array(<<8, 24>>)), Item("order_quantity", Array(<<8, 16, 24>>))>>}

UpdateDicts == {<<Item("demand", Scalar(8))>>}

ObjFns == {"profit", "order_cost"}
Targets == {0, 2, 8}
EndPoints == {e * Grain : e \in 0..MaxEnd}

InitModel ==
    [a \in Attrs |->
       CASE a = "unit_cost" -> Scalar(3)
         [] a = "selling_price" -> Scalar(5)
         [] a = "unit_refund" -> Scalar(1)
         [] a = "order_quantity" -> Scalar(8)
         [] a = "demand" -> Scalar(16)]

----------------------------------------------------------------------------
(* Outcomes of a call *)

NoCall ==
    [fn |-> "", scenario_inputs |-> <<>>, has_scenario_inputs |-> FALSE, outputs |-> <<>>,
     random_inputs |-> <<>>, keep_random_inputs |-> FALSE,
     obj_fn |-> "", target |-> 0, by_changing |-> "", a |-> 0, b |-> 0, N |-> 0]

\* nothing returned yet
NoRet ==
    [done |-> FALSE, exc |-> "", info |-> <<>>, table |-> EmptyFrame, records |-> <<>>,
     x |-> 0, isNone |-> FALSE]

\* an exception leaves the driver: its type and what else it carries; no value is returned
Raised(type) == [NoRet EXCEPT !.done = TRUE, !.exc = type]

ReturnedTable(t) == [NoRet EXCEPT !.done = TRUE, !.table = t]
ReturnedRecords(rs) == [NoRet EXCEPT !.done = TRUE, !.records = rs]
ReturnedNumber(x) == [NoRet EXCEPT !.done = TRUE, !.x = x]
ReturnedNone == [NoRet EXCEPT !.done = TRUE, !.isNone = TRUE]

NoFrame == [done |-> FALSE, exc |-> "", frame |-> EmptyFrame]

Init ==
    /\ heap = [r \in {SelfRef} |-> InitModel]
    /\ pc = "ready"
    /\ call = NoCall
    /\ model_clone = NullRef
    /\ param_grid = <<>>
    /\ scenario_num = 0
    /\ results = <<>>
    /\ a_n = 0
    /\ b_n = 0
    /\ n_iter = 0
    /\ ret = NoRet
    /\ df = NoFrame
    /\ scenario_base_vals = NullRef
    /\ evals = <<>>
    /\ base_at_start = InitModel
    /\ self_at_call = InitModel

\* entering a driver: fresh locals, the previous outcome is dropped
Enter(c) ==
    /\ pc = "ready"
    /\ call' = c
    /\ df' = NoFrame
    /\ evals' = <<>>
    /\ self_at_call' = heap[SelfRef]

Tagged(idx, names) == [i \in 1..Len(names) |-> <<idx, names[i]>>]

----------------------------------------------------------------------------
(* The caller changes its own model between driver calls: Model.update *)

CallerUpdate(param_dict) ==
    /\ pc \in {"ready", "idle"}
    /\ heap' = update(heap, SelfRef, param_dict)
    /\ UNCHANGED <<pc, call, model_clone, param_grid, scenario_num, results, a_n, b_n,
                   n_iter, ret, df, scenario_base_vals, evals, base_at_start, self_at_call>>

\* the caller lets go of the outcome it holds; only its model object lives on
Release ==
    /\ pc = "idle"
    /\ heap' = [r \in {SelfRef} |-> heap[SelfRef]]
    /\ pc' = "ready"
    /\ call' = NoCall
    /\ model_clone' = NullRef
    /\ param_grid' = <<>>
    /\ scenario_num' = 0
    /\ results' = <<>>
    /\ a_n' = 0
    /\ b_n' = 0
    /\ n_iter' = 0
    /\ ret' = NoRet
    /\ df' = NoFrame
    /\ scenario_base_vals' = NullRef
    /\ evals' = <<>>
    /\ base_at_start' = heap[SelfRef]
    /\ self_at_call' = heap[SelfRef]

----------------------------------------------------------------------------
(* Model.data_table *)

DataTableCall(scenario_inputs, outputs) ==
    LET c == deepcopy(heap, SelfRef)
        g == create_parameter_grid(scenario_inputs)
    IN  /\ Enter([NoCall EXCEPT !.fn = "data_table", !.scenario_inputs = scenario_inputs,
                                !.has_scenario_inputs = TRUE, !.outputs = outputs])
        /\ heap' = c.heap
        /\ model_clone' = c.ref
        /\ results' = <<>>
        /\ scenario_num' = 0
        /\ IF g.exc # ""
           THEN /\ ret' = Raised(g.exc)
                /\ param_grid' = <<>>
                /\ pc' = "idle"
           ELSE /\ ret' = NoRet
                /\ param_grid' = g.grid
                /\ pc' = "data_table"
        /\ UNCHANGED <<a_n, b_n, n_iter, scenario_base_vals, base_at_start>>

\* one pass of "for params in dt_param_grid"
DataTableStep ==
    /\ pc = "data_table"
    /\ scenario_num < Len(param_grid)
    /\ LET params == param_grid[scenario_num + 1]
           h == update(heap, model_clone, params)
           e == eval_outputs(h[model_clone], call.outputs, EvalStart(params))
       IN  /\ heap' = h
           /\ evals' = evals \o Tagged(scenario_num, e.invoked)
           /\ IF e.exc # ""
              THEN /\ ret' = Raised(e.exc)
                   /\ pc' = "idle"
                   /\ UNCHANGED <<results, scenario_num>>
              ELSE /\ results' = Append(results, e.dict)
                   /\ scenario_num' = scenario_num + 1
                   /\ UNCHANGED <<ret, pc>>
    /\ UNCHANGED <<call, model_clone, param_grid, a_n, b_n, n_iter, df, scenario_base_vals,
                   base_at_start, self_at_call>>

DataTableReturn ==
    /\ pc = "data_table"
    /\ scenario_num = Len(param_grid)
    /\ ret' = ReturnedTable(DataFrame(results))
    /\ pc' = "idle"
    /\ UNCHANGED <<heap, call, model_clone, param_grid, scenario_num, results, a_n, b_n,
                   n_iter, df, scenario_base_vals, evals, base_at_start, self_at_call>>

----------------------------------------------------------------------------
(* Model.simulate *)

\* mutant of scenario_record: scenarios are numbered from 1
scenario_record_from_1(base, num, vals, output) ==
    [scenario_base_vals |-> base, scenario_num |-> num + 1, scenario_vals |-> vals,
     output |-> output]

\* the dictionary one scenario contributes to the list simulate returns
scenario_record(base, num, vals, output) ==
    [scenario_base_vals |-> base, scenario_num |-> num, scenario_vals |-> vals,
     output |-> output]

SimulateCall(random_inputs, outputs, has_scenario_inputs, scenario_inputs, keep_random_inputs) ==
    LET c == deepcopy(heap, SelfRef)
        h == update(c.heap, c.ref, random_inputs)
        base == IF keep_random_inputs THEN c.ref ELSE SelfRef
        g == create_parameter_grid(scenario_inputs)
    IN  /\ Enter([NoCall EXCEPT !.fn = "simulate", !.scenario_inputs = scenario_inputs,
                                !.has_scenario_inputs = has_scenario_inputs,
                                !.outputs = outputs, !.random_inputs = random_inputs,
                                !.keep_random_inputs = keep_random_inputs])
        /\ heap' = h
        /\ model_clone' = c.ref
        /\ scenario_base_vals' = base
        /\ base_at_start' = h[base]
        /\ scenario_num' = 0
        /\ results' = <<>>
        /\ IF ~has_scenario_inputs
           THEN /\ ret' = NoRet
                /\ param_grid' = <<>>
                /\ pc' = "simulate_single"
           ELSE IF g.exc # ""
           THEN /\ ret' = Raised(g.exc)
                /\ param_grid' = <<>>
                /\ pc' = "idle"
           ELSE /\ ret' = NoRet
                /\ param_grid' = g.grid
                /\ pc' = "simulate"
        /\ UNCHANGED <<a_n, b_n, n_iter>>

\* one pass of "for params in sim_param_grid"
SimulateStep ==
    /\ pc = "simulate"
    /\ scenario_num < Len(param_grid)
    /\ LET params == param_grid[scenario_num + 1]
           h == update(heap, model_clone, params)
           e == eval_outputs(h[model_clone], call.outputs, EvalStart(<<>>))
       IN  /\ heap' = h
           /\ evals' = evals \o Tagged(scenario_num, e.invoked)
           /\ IF e.exc # ""
              THEN /\ ret' = Raised(e.exc)
                   /\ pc' = "idle"
                   /\ UNCHANGED <<results, scenario_num>>
              ELSE /\ results' = Append(results,
                                        scenario_record(scenario_base_vals, scenario_num,
                                                        params, e.dict))
                   /\ scenario_num' = scenario_num + 1
                   /\ UNCHANGED <<ret, pc>>
    /\ UNCHANGED <<call, model_clone, param_grid, a_n, b_n, n_iter, df, scenario_base_vals,
                   base_at_start, self_at_call>>

SimulateReturn ==
    /\ pc = "simulate"
    /\ scenario_num = Len(param_grid)
    /\ ret' = ReturnedRecords(results)
    /\ pc' = "idle"
    /\ UNCHANGED <<heap, call, model_clone, param_grid, scenario_num, results, a_n, b_n,
                   n_iter, df, scenario_base_vals, evals, base_at_start, self_at_call>>

\* the branch "else: only a single scenario"
SimulateSingle ==
    /\ pc = "simulate_single"
    /\ LET e == eval_outputs(heap[model_clone], call.outputs, EvalStart(<<>>))
       IN  /\ evals' = evals \o Tagged(scenario_num, e.invoked)
           /\ IF e.exc # ""
              THEN /\ ret' = Raised(e.exc)
                   /\ UNCHANGED results
              ELSE /\ results' = <<scenario_record(scenario_base_vals, scenario_num,
                                                   <<>>, e.dict)>>
                   /\ ret' = ReturnedRecords(results')
    /\ pc' = "idle"
    /\ UNCHANGED <<heap, call, model_clone, param_grid, scenario_num, a_n, b_n, n_iter, df,
                   scenario_base_vals, base_at_start, self_at_call>>

----------------------------------------------------------------------------
(* get_sim_results_df, applied by the caller to what simulate returned *)

GetSimResultsDf ==
    /\ pc = "idle"
    /\ call.fn = "simulate"
    /\ ret.done /\ ret.exc = ""
    /\ ~df.done
    /\ LET r == get_sim_results_df(ret.records)
       IN  df' = [done |-> TRUE, exc |-> r.exc, frame |-> r.frame]
    /\ UNCHANGED <<heap, pc, call, model_clone, param_grid, scenario_num, results, a_n, b_n,
                   n_iter, ret, scenario_base_vals, evals, base_at_start, self_at_call>>

----------------------------------------------------------------------------
(* Model.goal_seek *)

\* mutant of no_sign_change: a value that meets the target at an end point passes
no_sign_change_strict(f_a_0, f_b_0, target) == (f_a_0 - target) * (f_b_0 - target) > 0

\* the test that makes goal_seek give up before its loop
no_sign_change(f_a_0, f_b_0, target) == (f_a_0 - target) * (f_b_0 - target) >= 0

\* mutant of midpoint: the sum of the end points is never halved
midpoint_unhalved(x, y) == x + y

\* (x + y) / 2; exact, since the end points are multiples of Grain
midpoint(x, y) == (x + y) \div 2

\* getattr(model_clone, obj_fn)() right after setattr(model_clone, by_changing, x);
\* the value must be one number for the comparisons of goal_seek to work
f_at(h, ref, by_changing, obj_fn, x) ==
    LET r == invoke_output(setattr(h, ref, by_changing, Scalar(x))[ref], obj_fn)
    IN  [exc |-> IF r.exc # "" THEN r.exc ELSE IF r.val.k # "s" THEN "ValueError" ELSE "",
         f |-> IF r.exc = "" /\ r.val.k = "s" THEN r.val.v[1] ELSE 0]

GoalSeekCall(obj_fn, target, by_changing, a, b, N) ==
    LET c == deepcopy(heap, SelfRef)
        heap_a == setattr(c.heap, c.ref, by_changing, Scalar(a))
        heap_b == setattr(heap_a, c.ref, by_changing, Scalar(b))
        fa == f_at(c.heap, c.ref, by_changing, obj_fn, a)
        fb == f_at(c.heap, c.ref, by_changing, obj_fn, b)
    IN  /\ Enter([NoCall EXCEPT !.fn = "goal_seek", !.obj_fn = obj_fn, !.target = target,
                                !.by_changing = by_changing, !.a = a, !.b = b, !.N = N])
        /\ model_clone' = c.ref
        /\ n_iter' = 0
        /\ IF fa.exc # ""
           THEN /\ heap' = heap_a
                /\ ret' = Raised(fa.exc)
                /\ pc' = "idle"
                /\ UNCHANGED <<a_n, b_n>>
           ELSE IF fb.exc # ""
           THEN /\ heap' = heap_b
                /\ ret' = Raised(fb.exc)
                /\ pc' = "idle"
                /\ UNCHANGED <<a_n, b_n>>
           ELSE IF no_sign_change(fa.f, fb.f, target)
           THEN /\ heap' = heap_b
                /\ ret' = ReturnedNone
                /\ pc' = "idle"
                /\ UNCHANGED <<a_n, b_n>>
           ELSE /\ heap' = heap_b
                /\ ret' = NoRet
                /\ a_n' = a
                /\ b_n' = b
                /\ pc' = "goal_seek"
        /\ UNCHANGED <<param_grid, scenario_num, results, scenario_base_vals, base_at_start>>

\* mutant of GoalSeekStep: the halves are chosen by the sign of f, not of f - target
GoalSeekStep_zero_target ==
    /\ pc = "goal_seek"
    /\ n_iter < call.N
    /\ LET m_n == midpoint(a_n, b_n)
           heap_m == setattr(heap, model_clone, call.by_changing, Scalar(m_n))
           heap_a == setattr(heap, model_clone, call.by_changing, Scalar(a_n))
           heap_b == setattr(heap, model_clone, call.by_changing, Scalar(b_n))
           fm == f_at(heap, model_clone, call.by_changing, call.obj_fn, m_n)
           fa == f_at(heap, model_clone, call.by_changing, call.obj_fn, a_n)
           fb == f_at(heap, model_clone, call.by_changing, call.obj_fn, b_n)
       IN  /\ n_iter' = n_iter + 1
           /\ IF fm.exc # "" \/ fa.exc # "" \/ fb.exc # ""
              THEN /\ heap' = IF fm.exc # "" THEN heap_m
                              ELSE IF fa.exc # "" THEN heap_a ELSE heap_b
                   /\ ret' = Raised(IF fm.exc # "" THEN fm.exc
                                    ELSE IF fa.exc # "" THEN fa.exc ELSE fb.exc)
                   /\ pc' = "idle"
                   /\ UNCHANGED <<a_n, b_n>>
              ELSE /\ heap' = heap_b
                   /\ IF fa.f * fm.f < 0
                      THEN /\ a_n' = a_n
                           /\ b_n' = m_n
                           /\ UNCHANGED <<ret, pc>>
                      ELSE IF fb.f * fm.f < 0
                      THEN /\ a_n' = m_n
                           /\ b_n' = b_n
                           /\ UNCHANGED <<ret, pc>>
                      ELSE IF fm.f = call.target
                      THEN /\ ret' = ReturnedNumber(m_n)
                           /\ pc' = "idle"
                           /\ UNCHANGED <<a_n, b_n>>
                      ELSE /\ ret' = ReturnedNone
                           /\ pc' = "idle"
                           /\ UNCHANGED <<a_n, b_n>>
    /\ UNCHANGED <<call, model_clone, param_grid, scenario_num, results, df,
                   scenario_base_vals, evals, base_at_start, self_at_call>>

\* one pass of "for n in range(1, N + 1)"
GoalSeekStep ==
    /\ pc = "goal_seek"
    /\ n_iter < call.N
    /\ LET m_n == midpoint(a_n, b_n)
           heap_m == setattr(heap, model_clone, call.by_changing, Scalar(m_n))
           heap_a == setattr(heap, model_clone, call.by_changing, Scalar(a_n))
           heap_b == setattr(heap, model_clone, call.by_changing, Scalar(b_n))
           fm == f_at(heap, model_clone, call.by_changing, call.obj_fn, m_n)
           fa == f_at(heap, model_clone, call.by_changing, call.obj_fn, a_n)
           fb == f_at(heap, model_clone, call.by_changing, call.obj_fn, b_n)
       IN  /\ n_iter' = n_iter + 1
           /\ IF fm.exc # "" \/ fa.exc # "" \/ fb.exc # ""
              THEN /\ heap' = IF fm.exc # "" THEN heap_m
                              ELSE IF fa.exc # "" THEN heap_a ELSE heap_b
                   /\ ret' = Raised(IF fm.exc # "" THEN fm.exc
                                    ELSE IF fa.exc # "" THEN fa.exc ELSE fb.exc)
                   /\ pc' = "idle"
                   /\ UNCHANGED <<a_n, b_n>>
              ELSE /\ heap' = heap_b
                   /\ IF (fa.f - call.target) * (fm.f - call.target) < 0
                      THEN /\ a_n' = a_n
                           /\ b_n' = m_n
                           /\ UNCHANGED <<ret, pc>>
                      ELSE IF (fb.f - call.target) * (fm.f - call.target) < 0
                      THEN /\ a_n' = m_n
                           /\ b_n' = b_n
                           /\ UNCHANGED <<ret, pc>>
                      ELSE IF fm.f = call.target
                      THEN /\ ret' = ReturnedNumber(m_n)
                           /\ pc' = "idle"
                           /\ UNCHANGED <<a_n, b_n>>
                      ELSE /\ ret' = ReturnedNone
                           /\ pc' = "idle"
                           /\ UNCHANGED <<a_n, b_n>>
    /\ UNCHANGED <<call, model_clone, param_grid, scenario_num, results, df,
                   scenario_base_vals, evals, base_at_start, self_at_call>>

\* the iteration limit is hit
GoalSeekReturn ==
    /\ pc = "goal_seek"
    /\ n_iter = call.N
    /\ ret' = ReturnedNumber(midpoint(a_n, b_n))
    /\ pc' = "idle"
    /\ UNCHANGED <<heap, call, model_clone, param_grid, scenario_num, results, a_n, b_n,
                   n_iter, df, scenario_base_vals, evals, base_at_start, self_at_call>>

----------------------------------------------------------------------------

Next ==
    \/ \E param_dict \in UpdateDicts : CallerUpdate(param_dict)
    \/ Release
    \/ /\ pc = "ready"
       /\ \E scenario_inputs \in ScenarioInputs, outputs \in OutputLists :
             DataTableCall(scenario_inputs, outputs)
    \/ DataTableStep
    \/ DataTableReturn
    \/ /\ pc = "ready"
       /\ \E random_inputs \in RandomInputs, outputs \in OutputLists,
             scenario_inputs \in ScenarioInputs, keep_random_inputs \in BOOLEAN :
             SimulateCall(random_inputs, outputs, TRUE, scenario_inputs, keep_random_inputs)
    \/ /\ pc = "ready"
       /\ \E random_inputs \in RandomInputs, outputs \in OutputLists,
             keep_random_inputs \in BOOLEAN :
             SimulateCall(random_inputs, outputs, FALSE, <<>>, keep_random_inputs)
    \/ SimulateStep
    \/ SimulateReturn
    \/ SimulateSingle
    \/ GetSimResultsDf
    \/ /\ pc = "ready"
       /\ \E obj_fn \in ObjFns, target \in Targets, a \in EndPoints, b \in EndPoints,
             N \in 0..MaxN :
             GoalSeekCall(obj_fn, target, "order_quantity", a, b, N)
    \/ GoalSeekStep
    \/ GoalSeekReturn

Spec == Init /\ [][Next]_vars

\* The caller only ever runs goal_seek.  A call that has started keeps running:
\* the loop body and the return after the loop are taken when they are enabled.
GoalSeekNext ==
    \/ \E param_dict \in UpdateDicts : CallerUpdate(param_dict)
    \/ Release
    \/ /\ pc = "ready"
       /\ \E obj_fn \in ObjFns, target \in Targets, a \in EndPoints, b \in EndPoints,
             N \in 0..MaxN :
             GoalSeekCall(obj_fn, target, "order_quantity", a, b, N)
    \/ GoalSeekStep
    \/ GoalSeekReturn

GoalSeekSpec ==
    Init /\ [][GoalSeekNext]_vars /\ WF_vars(GoalSeekStep) /\ WF_vars(GoalSeekReturn)

----------------------------------------------------------------------------
(* What the claims are compared with *)

\* a driver is running, or has just been entered or left
InDriver == pc \notin {"ready", "idle"}

Returned(fn) == pc = "idle" /\ call.fn = fn /\ ret.done /\ ret.exc = ""

\* number of assignments that follow one another before key j changes value
RECURSIVE Stride(_, _)
Stride(si, j) == IF j >= Len(si) THEN 1 ELSE Len(si[j + 1].val) * Stride(si, j + 1)

\* the Cartesian product in row-major order, by index arithmetic
RowMajorGrid(si) ==
    [i \in 1..Stride(si, 0) |->
       [j \in 1..Len(si) |->
          Item(si[j].key,
               si[j].val[(((i - 1) \div Stride(si, j)) % Len(si[j].val)) + 1])]]

\* the attributes of a model whose attributes named in d were set to d's values
ModelWith(base, d) == [a \in Attrs |-> IF DictHas(d, a) THEN DictGet(d, a) ELSE base[a]]

\* the values of the requested outputs on model m, by name
OutputsOn(m, outputs) ==
    [i \in 1..Len(outputs) |-> Item(outputs[i], invoke_output(m, outputs[i]).val)]

----------------------------------------------------------------------------
(* C1 *)

\* C1: clone isolation.  No step of data_table, goal_seek or simulate (entering
\* it, a pass of its loop, leaving it) changes any attribute of the caller's
\* model, and the object the driver writes to is never the caller's model.
C1_CloneIsolation ==
    [][(pc' # pc \/ InDriver)
          => /\ heap'[SelfRef] = heap[SelfRef]
             /\ (pc' \notin {"ready"} => model_clone' # SelfRef)]_vars

\* a simulation has returned after writing random and scenario inputs to its clone
C1_Witness ==
    /\ Returned("simulate")
    /\ call.random_inputs # <<>>
    /\ Len(ret.records) >= 2
    /\ heap[model_clone] # heap[SelfRef]
    /\ heap[SelfRef] = self_at_call

----------------------------------------------------------------------------
(* C2 *)

\* C2: create_parameter_grid on an empty mapping returns exactly one empty
\* assignment and does not fail.
C2_EmptyMappingOneAssignment ==
    (call.has_scenario_inputs /\ call.scenario_inputs = <<>>)
        => LET g == create_parameter_grid(call.scenario_inputs)
           IN  g.exc = "" /\ g.grid = << <<>> >>

----------------------------------------------------------------------------
(* C3 *)

AllCandidatesNonEmpty(si) == \A j \in 1..Len(si) : si[j].val # <<>>

\* C3: for a non-empty mapping with non-empty candidate sequences, the grid a
\* driver loops over is the Cartesian product in row-major order: as many
\* assignments as the product of the lengths, each with the mapping's keys in
\* insertion order, the last key's values cycling fastest.
C3_GridIsRowMajorProduct ==
    (pc \in {"data_table", "simulate"} /\ call.scenario_inputs # <<>>
       /\ AllCandidatesNonEmpty(call.scenario_inputs))
        => /\ Len(param_grid) = Stride(call.scenario_inputs, 0)
           /\ param_grid = RowMajorGrid(call.scenario_inputs)
           /\ \A i \in 1..Len(param_grid) :
                 DictKeys(param_grid[i]) = DictKeys(call.scenario_inputs)

\* a grid of two keys with two different candidates each
C3_Witness ==
    /\ pc = "data_table"
    /\ Len(call.scenario_inputs) = 2
    /\ \A j \in 1..2 : /\ Len(call.scenario_inputs[j].val) = 2
                       /\ call.scenario_inputs[j].val[1] # call.scenario_inputs[j].val[2]
    /\ Len(param_grid) = 4
    /\ param_grid[1][1].val = param_grid[2][1].val
    /\ param_grid[1][2].val # param_grid[2][2].val

----------------------------------------------------------------------------
(* C4 *)

SomeCandidatesEmpty(si) == \E j \in 1..Len(si) : si[j].val = <<>>

\* C4: create_parameter_grid fails with ConfigurationError when a key has no
\* candidate value, so data_table and simulate never return zero rows or
\* records for such an input.
C4_EmptyCandidatesRejected ==
    (call.has_scenario_inputs /\ SomeCandidatesEmpty(call.scenario_inputs))
        => /\ create_parameter_grid(call.scenario_inputs).exc = "ConfigurationError"
           /\ (pc = "idle" => ret.exc = "ConfigurationError")

----------------------------------------------------------------------------
(* C5 *)

\* the row data_table owes for one assignment: the assignment, then the outputs
\* of a model that differs from the caller's model in the swept attributes only
DataTableRow(assignment) ==
    [c \in 1..(Len(assignment) + Len(call.outputs)) |->
       IF c <= Len(assignment) THEN assignment[c].val
       ELSE OutputsOn(ModelWith(self_at_call, assignment),
                      call.outputs)[c - Len(assignment)].val]

\* C5: data_table returns one row per assignment, in grid order; row i holds
\* assignment i and every requested output evaluated where the swept attributes
\* equal assignment i and all other attributes have their values at call time.
C5_DataTableRows ==
    Returned("data_table")
        => LET grid == RowMajorGrid(call.scenario_inputs)
           IN  /\ Len(ret.table.rows) = Len(grid)
               /\ \A i \in 1..Len(grid) :
                     ret.table.rows[i] = DataTableRow(grid[i])
               /\ (grid # <<>> =>
                     ret.table.columns = DictKeys(call.scenario_inputs) \o call.outputs)

\* a table of four rows over two swept attributes whose outputs differ by row
C5_Witness ==
    /\ Returned("data_table")
    /\ Len(call.scenario_inputs) = 2
    /\ call.outputs = <<"num_sold", "profit">>
    /\ Len(ret.table.rows) = 4
    /\ ret.table.rows[1][4] # ret.table.rows[4][4]

----------------------------------------------------------------------------
(* C6 *)

\* the caller's model with the random inputs installed
RandomizedModel == ModelWith(self_at_call, call.random_inputs)

----------------------------------------------------------------------------
(* C7 *)

\* C7: the scenario_base_vals of every record is the snapshot taken at the start
\* of the simulation (the clone with the random inputs when keep_random_inputs,
\* else the caller's model); nothing done later changes what a record holds.
C7_BaseValsAreSnapshot ==
    call.fn = "simulate"
        => /\ base_at_start = IF call.keep_random_inputs THEN RandomizedModel
                              ELSE self_at_call
           /\ \A i \in 1..Len(results) :
                 heap[results[i].scenario_base_vals] = base_at_start

----------------------------------------------------------------------------
(* C8 *)

\* f(x): the objective on the caller's model with the changing attribute set to x
Objective(x) ==
    invoke_output(ModelWith(self_at_call, <<Item(call.by_changing, Scalar(x))>>), call.obj_fn)

\* C8: when (f(a) - target) * (f(b) - target) >= 0, goal_seek returns None,
\* raises nothing and performs no bisection iteration.
C8_NoSignChangeReturnsNone ==
    (call.fn = "goal_seek" /\ pc # "ready"
       /\ Objective(call.a).exc = "" /\ Objective(call.b).exc = ""
       /\ (Objective(call.a).val.v[1] - call.target)
            * (Objective(call.b).val.v[1] - call.target) >= 0)
        => /\ pc = "idle"
           /\ ret.done /\ ret.isNone /\ ret.exc = ""
           /\ n_iter = 0

\* f(x) = 3x on [Grain, 2 Grain] with target 0: both values lie above the target
C8_Witness ==
    /\ pc = "idle" /\ call.fn = "goal_seek"
    /\ call.obj_fn = "order_cost" /\ call.target = 0
    /\ call.a = Grain /\ call.b = 2 * Grain /\ call.N > 0
    /\ Objective(call.a).val.v[1] * Objective(call.b).val.v[1] > 0
    /\ ret.isNone /\ n_iter = 0

----------------------------------------------------------------------------
(* C9 *)

\* the attributes the clone has while scenario k (from 0) is evaluated
ScenarioModel(k) ==
    LET base == IF call.fn = "simulate" THEN RandomizedModel ELSE self_at_call
    IN  IF call.has_scenario_inputs
        THEN ModelWith(base, RowMajorGrid(call.scenario_inputs)[k + 1])
        ELSE base

\* the outcome of the i-th output invocation of the call
Invocation(i) == invoke_output(ScenarioModel(evals[i][1]), evals[i][2])

----------------------------------------------------------------------------
(* C10 *)

\* every output of every record is an array of n replications, and there is one
Replications(rs, n) ==
    \A r \in 1..Len(rs) :
       /\ rs[r].output # <<>>
       /\ \A o \in 1..Len(rs[r].output) :
             rs[r].output[o].val.k = "a" /\ Len(rs[r].output[o].val.v) = n

\* the number of replications of the first record (0 when it has no output array)
ReplicationCount(rs) ==
    IF rs # <<>> /\ rs[1].output # <<>> /\ rs[1].output[1].val.k = "a"
    THEN Len(rs[1].output[1].val.v) ELSE 0

ColumnSet(frame) == {frame.columns[c] : c \in 1..Len(frame.columns)}

\* C10: get_sim_results_df gives one row per (record, replication index), in
\* record order and then replication order; the row holds the record's
\* scenario_num, its scenario_vals and, per output, the element of the output's
\* array at that index.  The columns are the same for one record as for several.
C10_FlattenedRows ==
    (df.done /\ call.fn = "simulate" /\ ret.records # <<>>)
        => LET n == ReplicationCount(ret.records)
           IN Replications(ret.records, n)
                 => /\ df.exc = ""
                    /\ Len(df.frame.rows) = Len(ret.records) * n
                    /\ ColumnSet(df.frame) =
                          {"scenario_num"}
                          \cup {call.outputs[o] : o \in 1..Len(call.outputs)}
                          \cup {call.scenario_inputs[j].key :
                                   j \in 1..Len(call.scenario_inputs)}
                    /\ Len(df.frame.columns) = Cardinality(ColumnSet(df.frame))
                    /\ \A r \in 1..Len(ret.records), j \in 1..n :
                          LET row == (r - 1) * n + j
                              rec == ret.records[r]
                          IN  /\ FrameCell(df.frame, row, "scenario_num")
                                    = Scalar(rec.scenario_num)
                              /\ \A v \in 1..Len(rec.scenario_vals) :
                                    FrameCell(df.frame, row, rec.scenario_vals[v].key)
                                       = rec.scenario_vals[v].val
                              /\ \A o \in 1..Len(rec.output) :
                                    FrameCell(df.frame, row, rec.output[o].key)
                                       = Scalar(rec.output[o].val.v[j])

\* four records of two replications each were flattened into eight rows
C10_Witness ==
    /\ df.done /\ df.exc = ""
    /\ Len(ret.records) = 4
    /\ Replications(ret.records, 2)
    /\ Len(df.frame.rows) = 8
    /\ call.outputs = <<"num_sold", "profit">>

----------------------------------------------------------------------------
(* C11 *)

Abs(x) == IF x < 0 THEN -x ELSE x
Min(x, y) == IF x <= y THEN x ELSE y
Max(x, y) == IF x <= y THEN y ELSE x

\* f(x) - target, for an objective that yields one number at x
Gap(x) == Objective(x).val.v[1] - call.target

\* the objective yields one number at both ends and at the middle of [x, y]
NumericOn(x, y) ==
    \A z \in {x, y, (x + y) \div 2} : Objective(z).exc = "" /\ Objective(z).val.k = "s"

\* one pass of the loop: keep [a_n, m], else keep [m, b_n], else return m on an exact hit
C11_StepRule ==
    (pc = "goal_seek" /\ n_iter < call.N /\ NumericOn(a_n, b_n))
        => LET m == (a_n + b_n) \div 2
           IN  /\ 2 * m = a_n + b_n
               /\ n_iter' = n_iter + 1
               /\ IF Gap(a_n) * Gap(m) < 0
                  THEN pc' = "goal_seek" /\ a_n' = a_n /\ b_n' = m
                  ELSE IF Gap(b_n) * Gap(m) < 0
                  THEN pc' = "goal_seek" /\ a_n' = m /\ b_n' = b_n
                  ELSE Gap(m) = 0
                         => /\ pc' = "idle"
                            /\ ret'.done /\ ret'.exc = "" /\ ~ret'.isNone
                            /\ ret'.x = m

\* while the loop runs: n halvings so far, inside the initial interval
C11_Interval ==
    pc = "goal_seek"
        => /\ n_iter <= call.N
           /\ Abs(b_n - a_n) * Pow2(n_iter) = Abs(call.b - call.a)
           /\ \A z \in {a_n, b_n} : Min(call.a, call.b) <= z /\ z <= Max(call.a, call.b)

\* a returned number is an exact hit of pass n_iter, or the middle after N halvings
C11_Final ==
    (Returned("goal_seek") /\ ~ret.isNone)
        => /\ n_iter <= call.N
           /\ 2 * ret.x = a_n + b_n
           /\ Min(call.a, call.b) <= ret.x /\ ret.x <= Max(call.a, call.b)
           /\ \/ /\ n_iter >= 1
                 /\ Gap(ret.x) = 0
                 /\ Abs(b_n - a_n) * Pow2(n_iter - 1) = Abs(call.b - call.a)
              \/ /\ n_iter = call.N
                 /\ Abs(b_n - a_n) * Pow2(call.N) = Abs(call.b - call.a)

\* C11: once the sign test has passed, each pass of goal_seek takes the middle m of
\* the current interval and keeps [a_n, m] when (f(a_n)-target)*(f(m)-target) < 0,
\* else [m, b_n] when (f(b_n)-target)*(f(m)-target) < 0, else returns m when
\* f(m) = target; without an exact hit the loop makes exactly N halvings and the
\* call returns the middle of the final interval, whose width is |b - a| / 2^N and
\* which lies inside [a, b]; a started call ends after at most N passes.
C11_BisectionWithinBudget ==
    /\ [](C11_Interval /\ C11_Final)
    /\ [][C11_StepRule]_vars
    /\ (pc = "goal_seek" ~> pc = "idle")

\* MaxN halvings without an exact hit, and the middle of the last interval returned
C11_Witness ==
    /\ Returned("goal_seek") /\ ~ret.isNone
    /\ call.N = MaxN /\ n_iter = MaxN
    /\ Gap(ret.x) # 0
    /\ Abs(b_n - a_n) * Pow2(MaxN) = Abs(call.b - call.a)
    /\ 2 * ret.x = a_n + b_n

----------------------------------------------------------------------------
(* C12 *)

\* C12: for an objective that is a function of the changing attribute alone, once
\* the sign test has passed, (f(a_n) - target) * (f(b_n) - target) < 0 holds at the
\* start of every pass of the loop; so the last branch of the loop is never taken
\* and goal_seek returns None only from the sign test, before any pass.
C12_BracketKept ==
    /\ (pc = "goal_seek" /\ NumericOn(a_n, b_n))
          => Gap(a_n) * Gap(b_n) < 0
    /\ (Returned("goal_seek") /\ ret.isNone)
          => /\ n_iter = 0
             /\ NumericOn(call.a, call.b) => Gap(call.a) * Gap(call.b) >= 0

\* a later pass is about to start on an interval that was halved and still brackets
C12_Witness ==
    /\ pc = "goal_seek"
    /\ n_iter >= 1 /\ n_iter < call.N
    /\ <<a_n, b_n>> # <<call.a, call.b>>
    /\ Gap(a_n) * Gap(b_n) < 0

====
